---- MODULE Spec2Model ----
(***************************************************************************)
(* ConnectorRegistry (superset/connectors/connector_registry.py): the      *)
(* class-level mapping from a datasource type tag to the datasource class  *)
(* registered under it, and the lookups that dispatch through it to a      *)
(* SQLAlchemy session.                                                     *)
(*                                                                         *)
(* The session is the caller's: here it is a table of rows per datasource  *)
(* class, fixed when the behaviour starts, and any query may fail with an  *)
(* error of the session itself.  The registry code puts no constraint on   *)
(* the rows of a class, so two rows of one class may carry the same id.    *)
(***************************************************************************)
EXTENDS Integers, Sequences, FiniteSets, TLC

\* ---------------------------------------------------------------- bounds
MaxId == 2          \* datasource ids are 1..MaxId
MaxRows == 2        \* rows held by the session, over all classes
MaxNames == 2       \* class names listed in one register_sources config

\* ------------------------------------------------------- the environment
\* The datasource classes that can be imported, the module each lives in
\* and the `type` attribute each declares.  X and X2 declare the same tag.
Classes == {"X", "X2", "Y"}
Modules == {"mod_a", "mod_b"}

ModuleOf(c) == IF c = "Y" THEN "mod_b" ELSE "mod_a"

TypeOf(c) == IF c = "Y" THEN "y" ELSE "x"

\* Tags a caller may pass; "z" is declared by no class.
Tags == {"x", "y", "z"}

Ids == 1..MaxId
DbIds == {1, 2}
Names == {"a", "b"}
Perms == {"p1", "p2"}
SchemaPerms == {"s1", "s2"}

\* What a caller passes as `permissions` and as `schema_perms`.
PermArgs == SUBSET {"p1"}
SchemaPermArgs == SUBSET {"s1"}

\* Exception classes, by name; NoError is a normal return.
NoError == "none"
DatasetNotFoundError == "DatasetNotFoundError"
KeyError == "KeyError"
AttributeError == "AttributeError"
NoResultFound == "NoResultFound"
MultipleResultsFound == "MultipleResultsFound"
SessionError == "SQLAlchemyError"

VARIABLES sources, rows, result, pc, idx

vars == <<sources, rows, result, pc, idx>>

\* ------------------------------------------------------------ utilities
SeqsUpTo(S, n) == UNION {[1..k -> S] : k \in 0..n}

RECURSIVE Ascending(_)
\* The numbers of the finite set S, as an ascending sequence.
Ascending(S) ==
    IF S = {} THEN <<>>
    ELSE LET m == CHOOSE x \in S : \A y \in S : x <= y
         IN  <<m>> \o Ascending(S \ {m})

RECURSIVE Flat(_)
\* Concatenation of a sequence of sequences.
Flat(ss) == IF ss = <<>> THEN <<>> ELSE Head(ss) \o Flat(Tail(ss))

\* -------------------------------------------- the registry, a Python dict
\* `sources` is a dict: a sequence of [key, cls] items in insertion order,
\* with pairwise distinct keys.
EmptyDict == <<>>

DictKeys(d) == {d[k].key : k \in 1..Len(d)}

DictHas(d, key) == key \in DictKeys(d)

DictGet(d, key) == d[CHOOSE k \in 1..Len(d) : d[k].key = key].cls

DictValues(d) == [k \in 1..Len(d) |-> d[k].cls]

\* d[key] = cls: an existing key keeps its position, a new key goes last.
DictSet(d, key, cls) ==
    IF DictHas(d, key)
    THEN [k \in 1..Len(d) |-> IF d[k].key = key THEN [key |-> key, cls |-> cls] ELSE d[k]]
    ELSE Append(d, [key |-> key, cls |-> cls])

\* ------------------------------------------------------ register_sources
\* A config is an ordered mapping module name -> list of class names; the
\* configs explored list at least one class name per module.
ConfigEntries ==
    [module : Modules, class_names : SeqsUpTo(Classes, MaxNames) \ {<<>>}]

ConfigSize(cfg) == Len(Flat([k \in 1..Len(cfg) |-> cfg[k].class_names]))

Configs ==
    {cfg \in SeqsUpTo(ConfigEntries, Cardinality(Modules)) :
        /\ \A i, j \in 1..Len(cfg) : i # j => cfg[i].module # cfg[j].module
        /\ ConfigSize(cfg) <= MaxNames}

\* The (module, class name) pairs in the order the two loops visit them.
ConfigItems(cfg) ==
    Flat([k \in 1..Len(cfg) |->
            [n \in 1..Len(cfg[k].class_names) |->
                [module |-> cfg[k].module, class_name |-> cfg[k].class_names[n]]]])

\* A faulty variant of RegisterClass: the first class registered under a tag stays.
RegisterClassKeepFirst(d, c) ==
    IF DictHas(d, TypeOf(c)) THEN d ELSE DictSet(d, TypeOf(c), c)

\* cls.sources[source_class.type] = source_class
RegisterClass(d, c) == DictSet(d, TypeOf(c), c)

RECURSIVE RegisterLoop(_, _, _)
\* The loops of register_sources over the items from position k on.  getattr
\* raises AttributeError for a name its module does not define; what was
\* registered before stays registered.
RegisterLoop(d, items, k) ==
    IF k > Len(items) THEN [sources |-> d, registered |-> <<>>, err |-> NoError]
    ELSE IF ModuleOf(items[k].class_name) # items[k].module
    THEN [sources |-> d, registered |-> <<>>, err |-> AttributeError]
    ELSE LET rest == RegisterLoop(RegisterClass(d, items[k].class_name), items, k + 1)
         IN  [rest EXCEPT !.registered = <<items[k].class_name>> \o @]

\* ------------------------------------------------------------ the session
\* A row of a datasource class: the columns the registry filters on (id,
\* database_id, perm, schema_perm), the name the by-name hooks match on, and
\* `visible`, the column default_query scopes on.
Row(id, name, database_id, perm, schema_perm, visible) ==
    [id |-> id, name |-> name, database_id |-> database_id, perm |-> perm,
     schema_perm |-> schema_perm, visible |-> visible]

\* An instance a query returns: the row at position pos of class cls;
\* eager tells whether columns and metrics were loaded with it.
Instance(c, k, eager) == [cls |-> c, pos |-> k, eager |-> eager]

Instances(c, positions, eager) ==
    [n \in 1..Len(positions) |-> Instance(c, positions[n], eager)]

\* session.query(c)...all(): the rows of c at the positions that pass the
\* filters, in row order.
QueryAll(c, passing, eager) == Instances(c, Ascending(passing), eager)

\* .filter_by(id=id) on class c: the positions of the rows that pass.
FilterById(c, id) == {k \in 1..Len(rows[c]) : rows[c][k].id = id}

\* The by-name hooks' filter on class c: the positions of the rows that pass.
FilterByName(c, name, dbid) ==
    {k \in 1..Len(rows[c]) : rows[c][k].name = name /\ rows[c][k].database_id = dbid}

Return(val) == [err |-> NoError, val |-> val]

Raise(err) == [err |-> err, val |-> <<>>]

\* A faulty variant of OneOrNone: several rows are reported as no row.
OneOrNoneLenient(found) ==
    IF Len(found) = 1 THEN Return(found) ELSE Return(<<>>)

\* Query.one_or_none(): None (an empty val) for no row, the row for one row,
\* MultipleResultsFound for more.
OneOrNone(found) ==
    IF Len(found) = 0 THEN Return(<<>>)
    ELSE IF Len(found) = 1 THEN Return(found)
    ELSE Raise(MultipleResultsFound)

\* A faulty variant of One: Query.first() in place of Query.one().
OneFirst(found) ==
    IF Len(found) = 0 THEN Raise(NoResultFound) ELSE Return(<<found[1]>>)

\* Query.one(): NoResultFound for no row, the row for one row,
\* MultipleResultsFound for more.
One(found) ==
    IF Len(found) = 0 THEN Raise(NoResultFound)
    ELSE IF Len(found) = 1 THEN Return(found)
    ELSE Raise(MultipleResultsFound)

\* source_class.default_query(qry): the class's own scoping of a listing.
DefaultQuery(c, r) == r.visible

\* datasource_class.get_datasource_by_name(session, name, schema, database_name):
\* the first row of the class with that name in that database, or None.  The
\* database is named by its id; schema is passed through and not matched on.
ImplGetDatasourceByName(c, name, dbid) ==
    LET found == QueryAll(c, FilterByName(c, name, dbid), FALSE)
    IN  IF found = <<>> THEN <<>> ELSE <<found[1]>>

\* datasource_class.query_datasources_by_name(session, database, name, schema=schema)
ImplQueryDatasourcesByName(c, dbid, name) ==
    QueryAll(c, FilterByName(c, name, dbid), FALSE)

\* ------------------------------------------------------------ the lookups
\* Each outcome is [err, val]: the exception raised (NoError for a return)
\* and the instances returned.  `fail` says that the session raises an
\* error of its own on the first query of the call.

\* A faulty variant of GetDatasourceOutcome: the tag is looked up without the guard.
GetDatasourceUnguarded(tag, id, fail) ==
    IF ~DictHas(sources, tag) THEN Raise(KeyError)
    ELSE IF fail THEN Raise(SessionError)
    ELSE LET one == OneOrNone(QueryAll(DictGet(sources, tag), FilterById(DictGet(sources, tag), id), FALSE))
         IN  IF one.err = NoError /\ one.val = <<>> THEN Raise(DatasetNotFoundError) ELSE one

GetDatasourceOutcome(tag, id, fail) ==
    IF ~DictHas(sources, tag) THEN Raise(DatasetNotFoundError)
    ELSE IF fail THEN Raise(SessionError)
    ELSE LET one == OneOrNone(QueryAll(DictGet(sources, tag), FilterById(DictGet(sources, tag), id), FALSE))
         IN  IF one.err = NoError /\ one.val = <<>> THEN Raise(DatasetNotFoundError) ELSE one

\* A faulty variant of GetAllDatasourcesOutcome: default_query is not applied.
GetAllDatasourcesUnscoped(fail) ==
    IF sources # EmptyDict /\ fail THEN Raise(SessionError)
    ELSE Return(Flat([k \in 1..Len(sources) |->
                        LET c == DictValues(sources)[k]
                        IN  QueryAll(c, 1..Len(rows[c]), FALSE)]))

GetAllDatasourcesOutcome(fail) ==
    IF sources # EmptyDict /\ fail THEN Raise(SessionError)
    ELSE Return(Flat([k \in 1..Len(sources) |->
                        LET c == DictValues(sources)[k]
                        IN  QueryAll(c, {p \in 1..Len(rows[c]) : DefaultQuery(c, rows[c][p])},
                                     FALSE)]))

\* One pass of the loop body of get_datasource_by_id on class c.
ProbeOutcome(c, id, fail) ==
    IF fail THEN Raise(SessionError)
    ELSE One(QueryAll(c, FilterById(c, id), FALSE))

\* A faulty variant of Swallowed: `except Exception: pass`.
SwallowedAny(err) == err # NoError

\* except NoResultFound: pass
Swallowed(err) == err = NoResultFound

\* A faulty variant of GetDatasourceByNameOutcome: no match is an error.
GetDatasourceByNameStrict(tag, name, dbid, fail) ==
    IF ~DictHas(sources, tag) THEN Raise(KeyError)
    ELSE IF fail THEN Raise(SessionError)
    ELSE LET found == ImplGetDatasourceByName(DictGet(sources, tag), name, dbid)
         IN  IF found = <<>> THEN Raise(DatasetNotFoundError) ELSE Return(found)

GetDatasourceByNameOutcome(tag, name, dbid, fail) ==
    IF ~DictHas(sources, tag) THEN Raise(KeyError)
    ELSE IF fail THEN Raise(SessionError)
    ELSE Return(ImplGetDatasourceByName(DictGet(sources, tag), name, dbid))

\* A faulty variant of PermissionFilter: the two permission tests are and-ed.
PermissionFilterBoth(r, dbid, permissions, schema_perms) ==
    /\ r.database_id = dbid
    /\ r.perm \in permissions /\ r.schema_perm \in schema_perms

\* .filter_by(database_id=database.id).filter(or_(perm.in_(...), schema_perm.in_(...)))
PermissionFilter(r, dbid, permissions, schema_perms) ==
    /\ r.database_id = dbid
    /\ (r.perm \in permissions \/ r.schema_perm \in schema_perms)

QueryDatasourcesByPermissionsOutcome(dbtype, dbid, permissions, schema_perms, fail) ==
    IF ~DictHas(sources, dbtype) THEN Raise(KeyError)
    ELSE IF fail THEN Raise(SessionError)
    ELSE LET c == DictGet(sources, dbtype)
         IN  Return(QueryAll(c, {k \in 1..Len(rows[c]) :
                                    PermissionFilter(rows[c][k], dbid, permissions,
                                                     schema_perms)},
                             FALSE))

\* A faulty variant of GetEagerDatasourceOutcome: it goes through get_datasource.
GetEagerDatasourceSafe(tag, id, fail) ==
    LET got == GetDatasourceOutcome(tag, id, fail)
    IN  [got EXCEPT !.val = [n \in 1..Len(@) |-> [@[n] EXCEPT !.eager = TRUE]]]

GetEagerDatasourceOutcome(tag, id, fail) ==
    IF ~DictHas(sources, tag) THEN Raise(KeyError)
    ELSE IF fail THEN Raise(SessionError)
    ELSE One(QueryAll(DictGet(sources, tag), FilterById(DictGet(sources, tag), id), TRUE))

QueryDatasourcesByNameOutcome(dbtype, dbid, name, fail) ==
    IF ~DictHas(sources, dbtype) THEN Raise(KeyError)
    ELSE IF fail THEN Raise(SessionError)
    ELSE Return(ImplQueryDatasourcesByName(DictGet(sources, dbtype), dbid, name))

\* ------------------------------------------------------- the state machine
\* sources  the registry, ConnectorRegistry.sources
\* rows     the session's tables: class -> sequence of rows, in row order
\* result   the call in progress or last completed: its name, arguments,
\*          the registry it started from (pre), its outcome (err, val) and,
\*          for get_datasource_by_id, the classes probed so far with the
\*          outcome of each probe; for register_sources, the classes stored
\* pc       "idle" between calls, "scan" while get_datasource_by_id is inside
\*          its loop, "done" when a call has returned or raised
\* idx      the position of that loop in sources.values(); 0 outside it

NoArgs == [tag |-> "-", id |-> 0, name |-> "-", dbid |-> 0,
           permissions |-> {}, schema_perms |-> {}]

Call(op, args, fail, out) ==
    [op |-> op, args |-> args, fail |-> fail, pre |-> sources,
     err |-> out.err, val |-> out.val,
     probed |-> <<>>, outcomes |-> <<>>, registered |-> <<>>]

NoCall ==
    [op |-> "none", args |-> NoArgs, fail |-> FALSE, pre |-> EmptyDict,
     err |-> NoError, val |-> <<>>,
     probed |-> <<>>, outcomes |-> <<>>, registered |-> <<>>]

\* The sessions explored: up to MaxRows rows placed one after another into
\* the tables of the classes.
Placements(ClassSet, RowSet) == SeqsUpTo(ClassSet \X RowSet, MaxRows)

TablesOf(pl) ==
    [c \in Classes |->
        LET at == Ascending({k \in 1..Len(pl) : pl[k][1] = c})
        IN  [n \in 1..Len(at) |-> pl[at[n]][2]]]

\* Rows that differ in id; the name follows the id.
IdRows == {Row(i, IF i = 1 THEN "a" ELSE "b", 1, "p1", "s1", TRUE) : i \in Ids}

\* Rows that differ in what default_query scopes on.
ScopeRows == {Row(1, "a", 1, "p1", "s1", v) : v \in BOOLEAN}

\* Rows that differ in database and in the two permission strings.
PermRows ==
    {Row(1, "a", d, p, sp, TRUE) : d \in DbIds, p \in Perms, sp \in SchemaPerms}

InitRegistry ==
    /\ sources = EmptyDict
    /\ result = NoCall
    /\ pc = "idle"
    /\ idx = 0

Init ==
    /\ \E pl \in Placements(Classes, IdRows) : rows = TablesOf(pl)
    /\ InitRegistry

InitScope ==
    /\ \E pl \in Placements(Classes, ScopeRows) : rows = TablesOf(pl)
    /\ InitRegistry

\* The permission rows go to one class of each tag.
InitPerm ==
    /\ \E pl \in Placements({"X", "Y"}, PermRows) : rows = TablesOf(pl)
    /\ InitRegistry

RegisterSources(cfg) ==
    /\ pc = "idle"
    /\ LET run == RegisterLoop(sources, ConfigItems(cfg), 1)
       IN  /\ sources' = run.sources
           /\ result' = [Call("register_sources", NoArgs, FALSE, Raise(run.err))
                            EXCEPT !.registered = run.registered]
    /\ pc' = "done"
    /\ UNCHANGED <<rows, idx>>

\* A faulty variant of GetDatasource: cls.sources.pop(datasource_type) in
\* place of cls.sources[datasource_type].
GetDatasourcePopping(tag, id, fail) ==
    /\ pc = "idle"
    /\ result' = Call("get_datasource", [NoArgs EXCEPT !.tag = tag, !.id = id], fail,
                      GetDatasourceOutcome(tag, id, fail))
    /\ sources' = SelectSeq(sources, LAMBDA item : item.key # tag)
    /\ pc' = "done"
    /\ UNCHANGED <<rows, idx>>

GetDatasource(tag, id, fail) ==
    /\ pc = "idle"
    /\ result' = Call("get_datasource", [NoArgs EXCEPT !.tag = tag, !.id = id], fail,
                      GetDatasourceOutcome(tag, id, fail))
    /\ pc' = "done"
    /\ UNCHANGED <<sources, rows, idx>>

GetAllDatasources(fail) ==
    /\ pc = "idle"
    /\ result' = Call("get_all_datasources", NoArgs, fail, GetAllDatasourcesOutcome(fail))
    /\ pc' = "done"
    /\ UNCHANGED <<sources, rows, idx>>

\* get_datasource_by_id enters its loop.
GetDatasourceById(id) ==
    /\ pc = "idle"
    /\ pc' = "scan"
    /\ idx' = 1
    /\ result' = Call("get_datasource_by_id", [NoArgs EXCEPT !.id = id], FALSE, Return(<<>>))
    /\ UNCHANGED <<sources, rows>>

\* The loop is exhausted: raise NoResultFound.
ScanExhausted ==
    /\ pc = "scan"
    /\ idx > Len(DictValues(sources))
    /\ result' = [result EXCEPT !.err = NoResultFound]
    /\ pc' = "done"
    /\ idx' = 0
    /\ UNCHANGED <<sources, rows>>

\* One pass of the loop: probe the class at idx; return its row, go on to the
\* next class or let the exception out.
ScanProbe(fail) ==
    /\ pc = "scan"
    /\ idx <= Len(DictValues(sources))
    /\ LET c == DictValues(sources)[idx]
           out == ProbeOutcome(c, result.args.id, fail)
           seen == [result EXCEPT !.probed = Append(@, c),
                                  !.outcomes = Append(@, out.err),
                                  !.fail = fail]
       IN  IF Swallowed(out.err)
           THEN /\ result' = seen
                /\ idx' = idx + 1
                /\ pc' = "scan"
           ELSE /\ result' = [seen EXCEPT !.err = out.err, !.val = out.val]
                /\ idx' = 0
                /\ pc' = "done"
    /\ UNCHANGED <<sources, rows>>

GetDatasourceByName(tag, name, dbid, fail) ==
    /\ pc = "idle"
    /\ result' = Call("get_datasource_by_name",
                      [NoArgs EXCEPT !.tag = tag, !.name = name, !.dbid = dbid], fail,
                      GetDatasourceByNameOutcome(tag, name, dbid, fail))
    /\ pc' = "done"
    /\ UNCHANGED <<sources, rows, idx>>

QueryDatasourcesByPermissions(dbtype, dbid, permissions, schema_perms, fail) ==
    /\ pc = "idle"
    /\ result' = Call("query_datasources_by_permissions",
                      [NoArgs EXCEPT !.tag = dbtype, !.dbid = dbid,
                                     !.permissions = permissions,
                                     !.schema_perms = schema_perms], fail,
                      QueryDatasourcesByPermissionsOutcome(dbtype, dbid, permissions,
                                                           schema_perms, fail))
    /\ pc' = "done"
    /\ UNCHANGED <<sources, rows, idx>>

GetEagerDatasource(tag, id, fail) ==
    /\ pc = "idle"
    /\ result' = Call("get_eager_datasource", [NoArgs EXCEPT !.tag = tag, !.id = id], fail,
                      GetEagerDatasourceOutcome(tag, id, fail))
    /\ pc' = "done"
    /\ UNCHANGED <<sources, rows, idx>>

QueryDatasourcesByName(dbtype, dbid, name, fail) ==
    /\ pc = "idle"
    /\ result' = Call("query_datasources_by_name",
                      [NoArgs EXCEPT !.tag = dbtype, !.dbid = dbid, !.name = name], fail,
                      QueryDatasourcesByNameOutcome(dbtype, dbid, name, fail))
    /\ pc' = "done"
    /\ UNCHANGED <<sources, rows, idx>>

\* The outcome has gone to the caller; the registry keeps nothing of it.
ReturnToCaller ==
    /\ pc = "done"
    /\ pc' = "idle"
    /\ result' = NoCall
    /\ UNCHANGED <<sources, rows, idx>>

Next ==
    \/ \E cfg \in Configs : RegisterSources(cfg)
    \/ \E tag \in Tags, id \in Ids, fail \in BOOLEAN : GetDatasource(tag, id, fail)
    \/ \E fail \in BOOLEAN : GetAllDatasources(fail)
    \/ \E id \in Ids : GetDatasourceById(id)
    \/ \E fail \in BOOLEAN : ScanProbe(fail)
    \/ ScanExhausted
    \/ \E tag \in Tags, name \in Names, dbid \in DbIds, fail \in BOOLEAN :
          GetDatasourceByName(tag, name, dbid, fail)
    \/ \E dbtype \in Tags, dbid \in DbIds, permissions \in PermArgs,
          schema_perms \in SchemaPermArgs, fail \in BOOLEAN :
          QueryDatasourcesByPermissions(dbtype, dbid, permissions, schema_perms, fail)
    \/ \E tag \in Tags, id \in Ids, fail \in BOOLEAN : GetEagerDatasource(tag, id, fail)
    \/ \E dbtype \in Tags, dbid \in DbIds, name \in Names, fail \in BOOLEAN :
          QueryDatasourcesByName(dbtype, dbid, name, fail)
    \/ ReturnToCaller

\* Registration and the permission query alone.
NextPerm ==
    \/ \E cfg \in Configs : RegisterSources(cfg)
    \/ \E dbtype \in Tags, dbid \in DbIds, permissions \in PermArgs,
          schema_perms \in SchemaPermArgs, fail \in BOOLEAN :
          QueryDatasourcesByPermissions(dbtype, dbid, permissions, schema_perms, fail)
    \/ ReturnToCaller

\* Sessions whose rows differ in id, under every operation.
Spec == Init /\ [][Next]_vars

\* Sessions whose rows differ in visibility, under every operation.
SpecScope == InitScope /\ [][Next]_vars

\* Sessions whose rows differ in database and permissions.
SpecPerm == InitPerm /\ [][NextPerm]_vars

\* ------------------------------------------------------------- properties
\* The positions of the rows of class c whose id is id.
Matching(c, id) == {k \in 1..Len(rows[c]) : rows[c][k].id = id}

Completed(op) == pc = "done" /\ result.op = op

Registered(tag) == \E k \in 1..Len(sources) : sources[k].key = tag

\* The class registered under tag (tag is registered).
ClassOf(tag) == sources[CHOOSE k \in 1..Len(sources) : sources[k].key = tag].cls

\* The first class in iteration order with a row of that id (there is one).
Earliest(id) ==
    sources[CHOOSE k \in 1..Len(sources) :
                /\ Matching(sources[k].cls, id) # {}
                /\ \A j \in 1..(k - 1) : Matching(sources[j].cls, id) = {}].cls

TheRow(c, S) == <<[cls |-> c, pos |-> CHOOSE k \in S : TRUE, eager |-> FALSE]>>

\* C1, as claimed: get_datasource with an unregistered tag fails with an error
\* kind of its own for unknown types, not the kind that reports a missing row.
C1_UnknownTypeHasOwnKind ==
    (Completed("get_datasource") /\ ~Registered(result.args.tag))
        => (result.err # NoError /\ result.err # DatasetNotFoundError)

\* C1, amended: get_datasource with an unregistered tag raises
\* DatasetNotFoundError, the kind it also raises for a missing row, whatever
\* the id, the rows of the session and the health of the session.
C1_UnknownTypeRaisesDatasetNotFound ==
    (Completed("get_datasource") /\ ~Registered(result.args.tag))
        => (result.err = DatasetNotFoundError /\ result.val = <<>>)

C1_Witness ==
    /\ Completed("get_datasource")
    /\ ~Registered(result.args.tag)
    /\ sources # EmptyDict
    /\ result.fail
    /\ \E c \in Classes : Matching(c, result.args.id) # {}

\* C2, as claimed: with a registered tag and a session that answers, no row
\* with the id and several rows with the id both fail with
\* DatasetNotFoundError, and one row is returned.
C2_SeveralRowsReportedAsNotFound ==
    (Completed("get_datasource") /\ Registered(result.args.tag) /\ ~result.fail)
        => LET S == Matching(ClassOf(result.args.tag), result.args.id)
           IN  IF Cardinality(S) = 1
               THEN result.err = NoError /\ result.val = TheRow(ClassOf(result.args.tag), S)
               ELSE result.err = DatasetNotFoundError /\ result.val = <<>>

\* C2, amended: with a registered tag and a session that answers,
\* get_datasource is determined by the number n of rows of the tag's class
\* with the id: n = 0 raises DatasetNotFoundError, n = 1 returns that row,
\* n > 1 raises MultipleResultsFound.
C2_GetDatasourceByRowCount ==
    (Completed("get_datasource") /\ Registered(result.args.tag) /\ ~result.fail)
        => LET S == Matching(ClassOf(result.args.tag), result.args.id)
           IN  /\ Cardinality(S) = 0
                    => (result.err = DatasetNotFoundError /\ result.val = <<>>)
               /\ Cardinality(S) = 1
                    => (result.err = NoError
                        /\ result.val = TheRow(ClassOf(result.args.tag), S))
               /\ Cardinality(S) > 1
                    => (result.err = MultipleResultsFound /\ result.val = <<>>)

C2_Witness ==
    /\ Completed("get_datasource")
    /\ Registered(result.args.tag)
    /\ ~result.fail
    /\ Cardinality(Matching(ClassOf(result.args.tag), result.args.id)) > 1

\* C3, as claimed: when no probe met a session error, get_datasource_by_id
\* returns a row with the id of the earliest registered class that has any
\* row with the id, and raises NoResultFound only when no registered class
\* has one.
C3_AnyMatchIsReturned ==
    (Completed("get_datasource_by_id") /\ result.err # SessionError)
        => IF \E k \in 1..Len(sources) : Matching(sources[k].cls, result.args.id) # {}
           THEN /\ result.err = NoError
                /\ Len(result.val) = 1
                /\ result.val[1].cls = Earliest(result.args.id)
                /\ result.val[1].pos \in Matching(Earliest(result.args.id), result.args.id)
           ELSE result.err = NoResultFound

\* C3, amended: when no probe met a session error, get_datasource_by_id looks
\* at the earliest registered class that has any row with the id: it returns
\* that row when the class has exactly one, raises MultipleResultsFound when
\* it has several, and raises NoResultFound exactly when no registered class
\* has a row with the id.
C3_EarliestMatchDecides ==
    (Completed("get_datasource_by_id") /\ result.err # SessionError)
        => IF \E k \in 1..Len(sources) : Matching(sources[k].cls, result.args.id) # {}
           THEN LET c == Earliest(result.args.id)
                    S == Matching(c, result.args.id)
                IN  IF Cardinality(S) = 1
                    THEN result.err = NoError /\ result.val = TheRow(c, S)
                    ELSE result.err = MultipleResultsFound /\ result.val = <<>>
           ELSE result.err = NoResultFound /\ result.val = <<>>

C3_Witness ==
    /\ Completed("get_datasource_by_id")
    /\ result.err = NoError
    /\ Len(sources) = 2
    /\ result.val[1].cls = sources[2].cls
    /\ Matching(sources[1].cls, result.args.id) = {}

\* C4: with a registered database type and a session that answers,
\* query_datasources_by_permissions returns, in row order and once each,
\* exactly the rows of that type's class whose database_id is the database's
\* id and whose perm is in permissions or whose schema_perm is in schema_perms.
C4_PermissionQueryExact ==
    (Completed("query_datasources_by_permissions") /\ Registered(result.args.tag)
        /\ ~result.fail)
        => LET c == ClassOf(result.args.tag)
               val == result.val
           IN  /\ result.err = NoError
               /\ \A n \in 1..Len(val) :
                     /\ val[n].cls = c
                     /\ val[n].pos \in 1..Len(rows[c])
                     /\ rows[c][val[n].pos].database_id = result.args.dbid
                     /\ \/ rows[c][val[n].pos].perm \in result.args.permissions
                        \/ rows[c][val[n].pos].schema_perm \in result.args.schema_perms
               /\ \A k \in 1..Len(rows[c]) :
                     (/\ rows[c][k].database_id = result.args.dbid
                      /\ \/ rows[c][k].perm \in result.args.permissions
                         \/ rows[c][k].schema_perm \in result.args.schema_perms)
                        => \E n \in 1..Len(val) : val[n].pos = k
               /\ \A m, n \in 1..Len(val) : m < n => val[m].pos < val[n].pos
               /\ (result.args.permissions = {} /\ result.args.schema_perms = {})
                     => val = <<>>

C4_Witness ==
    /\ Completed("query_datasources_by_permissions")
    /\ Registered(result.args.tag)
    /\ Len(result.val) = 1
    /\ Len(rows[ClassOf(result.args.tag)]) = 2
    /\ \A k \in 1..2 : rows[ClassOf(result.args.tag)][k].database_id = result.args.dbid
    /\ rows[ClassOf(result.args.tag)][result.val[1].pos].perm \notin result.args.permissions

\* C5: when the session answers, get_all_datasources returns, class by class
\* in the iteration order of the registry and in row order within a class,
\* exactly the rows of the registered classes that pass default_query; a
\* class that is not (or no longer) registered contributes nothing.
C5_AllDatasourcesExact ==
    (Completed("get_all_datasources") /\ ~(result.fail /\ sources # EmptyDict))
        => LET val == result.val
               At(c) == CHOOSE k \in 1..Len(sources) : sources[k].cls = c
           IN  /\ result.err = NoError
               /\ \A n \in 1..Len(val) :
                     /\ \E k \in 1..Len(sources) : sources[k].cls = val[n].cls
                     /\ val[n].pos \in 1..Len(rows[val[n].cls])
                     /\ rows[val[n].cls][val[n].pos].visible
               /\ \A k \in 1..Len(sources) : \A p \in 1..Len(rows[sources[k].cls]) :
                     rows[sources[k].cls][p].visible
                        => \E n \in 1..Len(val) :
                              val[n].cls = sources[k].cls /\ val[n].pos = p
               /\ \A m, n \in 1..Len(val) :
                     m < n => \/ At(val[m].cls) < At(val[n].cls)
                              \/ val[m].cls = val[n].cls /\ val[m].pos < val[n].pos

C5_Witness ==
    /\ Completed("get_all_datasources")
    /\ Len(result.val) = 1
    /\ \E c \in Classes :
          /\ \A k \in 1..Len(sources) : sources[k].cls # c
          /\ TypeOf(c) = TypeOf(result.val[1].cls)
          /\ \E p \in 1..Len(rows[c]) : rows[c][p].visible

\* C6: the registry holds at most one class per tag, every class under the
\* tag it declares; after register_sources each tag some stored class
\* declares maps to the last such class, and every other tag is as before.
C6_LastRegistrationWins ==
    /\ \A i, j \in 1..Len(sources) : sources[i].key = sources[j].key => i = j
    /\ \A k \in 1..Len(sources) : sources[k].key = TypeOf(sources[k].cls)
    /\ Completed("register_sources")
        => \A tag \in Tags :
              LET reg == result.registered
                  at == {n \in 1..Len(reg) : TypeOf(reg[n]) = tag}
              IN  IF at # {}
                  THEN /\ Registered(tag)
                       /\ ClassOf(tag) = reg[CHOOSE n \in at : \A m \in at : m <= n]
                  ELSE \A c \in Classes :
                          (\E k \in 1..Len(sources) :
                              sources[k] = [key |-> tag, cls |-> c])
                          <=> (\E k \in 1..Len(result.pre) :
                                  result.pre[k] = [key |-> tag, cls |-> c])

C6_Witness ==
    /\ Completed("register_sources")
    /\ result.registered = <<"X", "X2">>
    /\ \E k \in 1..Len(result.pre) : result.pre[k].key = "y"
    /\ \E k \in 1..Len(sources) : sources[k] = [key |-> "x", cls |-> "X2"]

\* C7, as claimed: get_eager_datasource fails exactly when get_datasource
\* fails on the same arguments, with the same error kind, and returns the
\* same row when both succeed.
C7_EagerFailsIdentically ==
    Completed("get_eager_datasource")
        => LET safe == GetDatasourceOutcome(result.args.tag, result.args.id, result.fail)
           IN  /\ result.err = safe.err
               /\ Len(result.val) = Len(safe.val)
               /\ \A n \in 1..Len(safe.val) :
                     result.val[n].cls = safe.val[n].cls /\ result.val[n].pos = safe.val[n].pos

\* C7, amended: get_eager_datasource fails exactly when get_datasource fails
\* on the same arguments and returns the same row (with columns and metrics
\* loaded) when both succeed, but the error kinds differ: an unregistered tag
\* raises KeyError where get_datasource raises DatasetNotFoundError, and no
\* row with the id raises NoResultFound where get_datasource raises
\* DatasetNotFoundError; several rows raise MultipleResultsFound in both.
C7_EagerFailsWhenSafeFails ==
    Completed("get_eager_datasource")
        => LET safe == GetDatasourceOutcome(result.args.tag, result.args.id, result.fail)
           IN  /\ result.err = NoError <=> safe.err = NoError
               /\ Len(result.val) = Len(safe.val)
               /\ \A n \in 1..Len(safe.val) :
                     /\ result.val[n].cls = safe.val[n].cls
                     /\ result.val[n].pos = safe.val[n].pos
                     /\ result.val[n].eager
               /\ ~Registered(result.args.tag)
                     => (result.err = KeyError /\ safe.err = DatasetNotFoundError)
               /\ (Registered(result.args.tag) /\ ~result.fail)
                     => LET n == Cardinality(Matching(ClassOf(result.args.tag),
                                                      result.args.id))
                        IN  /\ n = 0 => (result.err = NoResultFound
                                         /\ safe.err = DatasetNotFoundError)
                            /\ n > 1 => (result.err = MultipleResultsFound
                                         /\ safe.err = MultipleResultsFound)

C7_Witness ==
    /\ Completed("get_eager_datasource")
    /\ Registered(result.args.tag)
    /\ result.err = NoResultFound
    /\ \E c \in Classes : Matching(c, result.args.id) # {}

\* C8: get_datasource_by_name with an unregistered tag and
\* query_datasources_by_permissions with a database of unregistered type both
\* raise KeyError, the error of the missing registry key; with a registered
\* tag and a session that answers, get_datasource_by_name returns what the
\* class's own get_datasource_by_name finds, None (no error) when nothing
\* matches.
C8_ByNameDispatch ==
    /\ (Completed("get_datasource_by_name") /\ ~Registered(result.args.tag))
          => (result.err = KeyError /\ result.val = <<>>)
    /\ (Completed("query_datasources_by_permissions") /\ ~Registered(result.args.tag))
          => (result.err = KeyError /\ result.val = <<>>)
    /\ (Completed("get_datasource_by_name") /\ Registered(result.args.tag)
          /\ ~result.fail)
          => LET c == ClassOf(result.args.tag)
                 S == {k \in 1..Len(rows[c]) :
                          /\ rows[c][k].name = result.args.name
                          /\ rows[c][k].database_id = result.args.dbid}
             IN  /\ result.err = NoError
                 /\ S = {} => result.val = <<>>
                 /\ S # {} => result.val =
                        <<[cls |-> c, pos |-> CHOOSE k \in S : \A j \in S : k <= j,
                           eager |-> FALSE]>>

C8_Witness ==
    /\ Completed("get_datasource_by_name")
    /\ Registered(result.args.tag)
    /\ ~result.fail
    /\ result.val = <<>>
    /\ rows[ClassOf(result.args.tag)] # <<>>

\* C9: get_datasource_by_id probes the registered classes one at a time in
\* iteration order, each at most once and never more of them than are
\* registered; the scan goes on past a probe only when the probe raised
\* NoResultFound, so a row ends it and any other exception ends it and is the
\* exception the caller gets.
C9_ScanOrder ==
    result.op = "get_datasource_by_id"
        => LET probed == result.probed
               outcomes == result.outcomes
           IN  /\ Len(probed) <= Len(sources)
               /\ Len(outcomes) = Len(probed)
               /\ \A k \in 1..Len(probed) : probed[k] = sources[k].cls
               /\ \A j, k \in 1..Len(probed) : probed[j] = probed[k] => j = k
               /\ \A k \in 1..(Len(outcomes) - 1) : outcomes[k] = NoResultFound
               /\ pc = "scan"
                     => (/\ idx = Len(probed) + 1
                         /\ \A k \in 1..Len(outcomes) : outcomes[k] = NoResultFound)
               /\ pc = "done"
                     => \/ /\ Len(outcomes) > 0
                           /\ outcomes[Len(outcomes)] # NoResultFound
                           /\ result.err = outcomes[Len(outcomes)]
                        \/ /\ Len(probed) = Len(sources)
                           /\ \A k \in 1..Len(outcomes) : outcomes[k] = NoResultFound
                           /\ result.err = NoResultFound

C9_Witness ==
    /\ Completed("get_datasource_by_id")
    /\ Len(sources) = 2
    /\ result.outcomes = <<SessionError>>
    /\ result.err = SessionError
    /\ Matching(sources[2].cls, result.args.id) # {}

\* C10: only register_sources changes the registry: every step of every
\* lookup, returning or raising, and the return to the caller leave it as it
\* was, so it holds classes under tags and never an instance.
C10_LookupsLeaveRegistry ==
    /\ [](\A k \in 1..Len(sources) : sources[k].key \in Tags /\ sources[k].cls \in Classes)
    /\ [][result'.op # "register_sources" => sources' = sources]_vars

C10_Witness ==
    /\ Completed("get_all_datasources")
    /\ Len(result.val) = 2
    /\ Len(sources) = 2

====
